---- MODULE Spec2Model ----
(***************************************************************************)
(* Quiz lifecycle of server.js: the in-memory quiz store `quizzes`, the    *)
(* three routes that touch it (POST /generate-quiz, POST /submit-quiz,     *)
(* GET /quiz-results/:quizId) and the text-generation call that suspends   *)
(* /generate-quiz.  Node runs each handler to its next await without       *)
(* interleaving, so one action is one handler segment between awaits.      *)
(***************************************************************************)
EXTENDS Integers, Sequences, FiniteSets, TLC

(* ------------------------------ bounds --------------------------------- *)
\* Date.now() is modelled as a counter 0..MaxClock.
MaxClock == 1
\* Math.random().toString(36).substr(2, 9) is drawn from 0..MaxRand.
MaxRand == 0
\* number of /generate-quiz requests accepted in one run
MaxGenerates == 2
\* number of /submit-quiz requests answered 200 in one run
MaxSubmissions == 2
\* longest JSON array the collaborator returns that ends in an arbitrary element
MaxArrayLen == 2
\* longest answers array a student sends
MaxAnswers == 1

(* --------------------------- program constants ------------------------- *)
\* the prompt asks for 5-10 questions with 4 options each
BandLow == 5
BandHigh == 10
OptionCount == 4

(* --------------------------- JavaScript values ------------------------- *)
\* A JavaScript value is a record: its type tag t and, by type, its payload.
Undefined == [t |-> "undefined"]
JsNull == [t |-> "null"]
NaN == [t |-> "nan"]
Num(n) == [t |-> "number", n |-> n]
Str(s) == [t |-> "string", s |-> s]
Arr(s) == [t |-> "array", a |-> s]
Obj(r) == [t |-> "object", o |-> r]
\* the string new Date().toISOString() yields at clock value n
IsoDate(n) == [t |-> "date", d |-> n]

\* x === y : no conversion; NaN differs from everything, itself included;
\* an array or object parsed from one JSON text is never one parsed from another
StrictEq(x, y) ==
  x.t = y.t /\ x.t \in {"number", "string", "undefined", "null"} /\ x = y

\* !x for the values a request body field takes here
Falsy(x) == x.t \in {"undefined", "null", "nan"} \/ x = Str("") \/ x = Num(0)

\* x.name throws a TypeError exactly when x is null or undefined
PropThrows(x) == x.t \in {"undefined", "null"}

\* x.name when it does not throw: the field of an object, undefined otherwise
Prop(x, name) ==
  IF x.t = "object" /\ name \in DOMAIN x.o THEN x.o[name] ELSE Undefined

\* a[idx] with a 0-based idx: the element of an array, undefined otherwise
Index(a, idx) ==
  IF a.t = "array" /\ idx + 1 \in DOMAIN a.a THEN a.a[idx + 1] ELSE Undefined

(* ------------------------------ inputs --------------------------------- *)
Topics == {Str("Photosynthesis"), Str("")}
RoomNames == {Str("room1")}
StudentNames == {Str("Alice"), Str("")}

FourOptions == Arr(<<Str("A"), Str("B"), Str("C"), Str("D")>>)

\* a well-formed question whose answer key is k
Question(k) ==
  Obj([question |-> Str("q"), options |-> FourOptions, correctAnswer |-> Num(k)])

\* an object without a correctAnswer field
NoKeyQuestion == Obj([question |-> Str("q"), options |-> FourOptions])

\* two options and an answer key outside 0..3
BadQuestion ==
  Obj([question |-> Str("q"), options |-> Arr(<<Str("A"), Str("B")>>),
       correctAnswer |-> Num(7)])

\* the elements the collaborator may put last in its JSON array
Elements == {JsNull, NoKeyQuestion, BadQuestion, Question(0)}

SeqsUpTo(S, n) == UNION {[1..k -> S] : k \in 0..n}

\* the quiz the prompt asks for: n questions, four options each, key in 0..3
WellFormed(n) == [i \in 1..n |-> Question(i % 2)]

\* the JSON arrays the collaborator's text may encode: the empty one, the
\* well-formed quiz of BandLow questions, and well-formed questions followed
\* by one arbitrary element
JsonArrays ==
  {Arr(<<>>), Arr(WellFormed(BandLow))}
    \cup {Arr(Append(WellFormed(k - 1), e)) : k \in 1..MaxArrayLen, e \in Elements}

\* the JSON values the collaborator's text may encode
JsonValues == JsonArrays \cup {Obj([quiz |-> Str("q")])}

\* text that is not JSON at all
Garbage == [t |-> "garbage"]

\* the message content: a JSON text, optionally inside ```json ... ``` fences
Texts == [fenced : BOOLEAN, json : JsonValues \cup {Garbage}]

\* what awaiting groq.chat.completions.create yields: a rejection, a
\* completion without content, or a completion whose content is a text
Outcomes ==
  {[kind |-> "reject", content |-> Undefined],
   [kind |-> "resolve", content |-> Undefined]}
    \cup {[kind |-> "resolve", content |-> [t |-> "text", x |-> x]] : x \in Texts}

\* the answers field of a /submit-quiz body
AnswerInputs ==
  {Arr(s) : s \in SeqsUpTo({Num(0), Num(1)}, MaxAnswers)} \cup {Undefined}

\* a quiz id: `quiz_${Date.now()}_${random}`
QuizId(ms, rnd) == "quiz_" \o ToString(ms) \o "_" \o ToString(rnd)
QuizIds == {QuizId(ms, rnd) : ms \in 0..MaxClock, rnd \in 0..MaxRand}
QuizIdInputs == {Str(id) : id \in QuizIds} \cup {Undefined}

(* ------------------------------- state --------------------------------- *)
VARIABLES
  quizzes,    \* the store: quiz id -> [roomName, topic, questions, submissions, createdAt]
  inflight,   \* /generate-quiz requests suspended at the await
  accepted,   \* number of /generate-quiz requests that reached the await
  now,        \* Date.now()
  res,        \* the response of the handler that ran last
  completed,  \* quiz id -> number of /submit-quiz calls answered 200
  lastContent \* the message content the /generate-quiz that resumed last received

vars == <<quizzes, inflight, accepted, now, res, completed, lastContent>>

Empty == [x \in {} |-> 0]

NoResponse == [op |-> "none", status |-> 0, req |-> Empty, body |-> Empty]

Init ==
  /\ quizzes = Empty
  /\ inflight = {}
  /\ accepted = 0
  /\ now = 0
  /\ res = NoResponse
  /\ completed = Empty
  /\ lastContent = Undefined

\* a response: the route, the status, the quiz id the request named (where the
\* body does not repeat it), the JSON body
Reply(op, status, req, body) == [op |-> op, status |-> status, req |-> req, body |-> body]

(* --------------------------- the clock --------------------------------- *)
Tick ==
  /\ now < MaxClock
  /\ now' = now + 1
  /\ UNCHANGED <<quizzes, inflight, accepted, res, completed, lastContent>>

(* --------------------------- POST /generate-quiz ----------------------- *)
\* .replace(/```json\n?/g, '').replace(/```\n?/g, '').trim()
StripFences(text) == [text EXCEPT !.fenced = FALSE]

\* JSON.parse(text) throws a SyntaxError on fences and on non-JSON text
JsonParseThrows(text) == text.fenced \/ text.json = Garbage

\* JSON.parse(text) when it does not throw
JsonParse(text) == text.json

\* the try block of lines 221-229 ends in its catch: the content is missing
\* (.trim() or .replace() of undefined), is not JSON, or is not an array
ParseFails(content) ==
  \/ content.t # "text"
  \/ JsonParseThrows(StripFences(content.x))
  \/ JsonParse(StripFences(content.x)).t # "array"

\* the parsed array without its last element
ParsedQuestionsTruncated(content) ==
  LET a == JsonParse(StripFences(content.x))
  IN Arr(SubSeq(a.a, 1, Len(a.a) - 1))
\* the questions the handler keeps when the try block completes
ParsedQuestions(content) == JsonParse(StripFences(content.x))

\* the record stored under the new id
NewQuiz(req, quizQuestions, at) ==
  [roomName |-> req.roomName,
   topic |-> req.topic,
   questions |-> quizQuestions,
   submissions |-> <<>>,
   createdAt |-> IsoDate(at)]

\* quizzes[quizId] = {...}: plain assignment, an existing key is overwritten
Store(store, quizId, quiz) == (quizId :> quiz) @@ store

\* one element of the response's questions, with the answer key as well
QuestionViewLeaky(q, idx) ==
  [id |-> idx, question |-> Prop(q, "question"), options |-> Prop(q, "options"),
   correctAnswer |-> Prop(q, "correctAnswer")]
\* one element of the response's questions: { id, question, options }
QuestionView(q, idx) ==
  [id |-> idx, question |-> Prop(q, "question"), options |-> Prop(q, "options")]

\* quizQuestions.map(...) throws when an element is null
ViewThrows(quizQuestions) ==
  \E i \in DOMAIN quizQuestions.a : PropThrows(quizQuestions.a[i])

QuestionsView(quizQuestions) ==
  [i \in DOMAIN quizQuestions.a |-> QuestionView(quizQuestions.a[i], i - 1)]

\* lines 170-218: validate the body and call the collaborator
GenerateQuiz(topic, roomName) ==
  IF Falsy(topic) \/ Falsy(roomName)
  THEN /\ res' = Reply("generate", 400, Empty, [error |-> "Topic and roomName are required"])
       /\ UNCHANGED <<quizzes, inflight, accepted, now, completed, lastContent>>
  ELSE /\ accepted < MaxGenerates
       /\ accepted' = accepted + 1
       /\ inflight' = inflight \cup
            {[rid |-> accepted + 1, topic |-> topic, roomName |-> roomName]}
       /\ UNCHANGED <<quizzes, now, res, completed, lastContent>>

\* lines 205-260: the await settles; parse, store, respond
GenerateQuizResume(req, outcome, rnd) ==
  /\ req \in inflight
  /\ inflight' = inflight \ {req}
  /\ UNCHANGED <<accepted, now, completed>>
  /\ lastContent' = outcome.content
  /\ IF outcome.kind = "reject"
     THEN /\ res' = Reply("generate", 500, Empty, [error |-> "Quiz generation failed"])
          /\ UNCHANGED quizzes
     ELSE IF ParseFails(outcome.content)
     THEN /\ res' = Reply("generate", 500, Empty,
                            [error |-> "Failed to parse quiz questions or AI returned invalid format"])
          /\ UNCHANGED quizzes
     ELSE LET quizQuestions == ParsedQuestions(outcome.content)
              quizId == QuizId(now, rnd)
          IN /\ quizzes' = Store(quizzes, quizId, NewQuiz(req, quizQuestions, now))
             /\ IF ViewThrows(quizQuestions)
                THEN res' = Reply("generate", 500, Empty,
                                  [error |-> "Quiz generation failed"])
                ELSE res' = Reply("generate", 200, Empty,
                                  [quizId |-> quizId,
                                   questions |-> QuestionsView(quizQuestions)])

(* ---------------------------- POST /submit-quiz ------------------------ *)
\* quiz.questions.map(...) throws when an element is null (q.correctAnswer)
GradeThrows(questions) ==
  \E i \in DOMAIN questions.a : PropThrows(questions.a[i])

\* studentAnswer === q.correctAnswer for the question at 0-based idx
IsCorrect(questions, answers, idx) ==
  StrictEq(Index(answers, idx), Prop(Index(questions, idx), "correctAnswer"))

\* the value of correctCount after the map
CorrectCount(questions, answers) ==
  Cardinality({idx \in 0..(Len(questions.a) - 1) : IsCorrect(questions, answers, idx)})

\* Math.round((correctCount / length) * 100): 0 / 0 is NaN and stays NaN;
\* otherwise the nearest integer, halves upwards (the double arithmetic is
\* exact for every length below 40)
Score(correctCount, length) ==
  IF length = 0 THEN NaN
  ELSE Num((200 * correctCount + length) \div (2 * length))

\* one element of the response's results
Result(questions, answers, idx) ==
  [questionId |-> idx,
   question |-> Prop(Index(questions, idx), "question"),
   studentAnswer |-> Index(answers, idx),
   correctAnswer |-> Prop(Index(questions, idx), "correctAnswer"),
   isCorrect |-> IsCorrect(questions, answers, idx)]

Results(questions, answers) ==
  [i \in DOMAIN questions.a |-> Result(questions, answers, i - 1)]

\* the record pushed onto quiz.submissions
Submission(quiz, studentName, answers, at) ==
  LET correctCount == CorrectCount(quiz.questions, answers)
      length == Len(quiz.questions.a)
  IN [studentName |-> studentName,
      answers |-> answers,
      score |-> Score(correctCount, length),
      correctCount |-> correctCount,
      totalQuestions |-> length,
      submittedAt |-> IsoDate(at)]

\* the number of /submit-quiz requests answered 200 so far
RECURSIVE SumOver(_, _)
SumOver(f, S) ==
  IF S = {} THEN 0
  ELSE LET x == CHOOSE y \in S : TRUE IN f[x] + SumOver(f, S \ {x})
TotalCompleted == SumOver(completed, DOMAIN completed)

\* completed[id] + 1, counting from 0
Bump(f, id) == (id :> (IF id \in DOMAIN f THEN f[id] + 1 ELSE 1)) @@ f

\* lines 264-319, no await inside: the whole handler is one step
SubmitQuiz(quizId, studentName, answers) ==
  /\ UNCHANGED <<inflight, accepted, now, lastContent>>
  /\ IF Falsy(quizId) \/ Falsy(studentName) \/ Falsy(answers)
     THEN /\ res' = Reply("submit", 400, [quizId |-> quizId],
                          [error |-> "quizId, studentName, and answers are required"])
          /\ UNCHANGED <<quizzes, completed>>
     ELSE IF quizId.s \notin DOMAIN quizzes
     THEN /\ res' = Reply("submit", 404, [quizId |-> quizId],
                          [error |-> "Quiz not found"])
          /\ UNCHANGED <<quizzes, completed>>
     ELSE LET quiz == quizzes[quizId.s]
              submission == Submission(quiz, studentName, answers, now)
          IN IF GradeThrows(quiz.questions)
             THEN /\ res' = Reply("submit", 500, [quizId |-> quizId],
                                  [error |-> "Quiz submission failed"])
                  /\ UNCHANGED <<quizzes, completed>>
             ELSE /\ TotalCompleted < MaxSubmissions
                  /\ quizzes' = [quizzes EXCEPT ![quizId.s].submissions =
                                   Append(@, submission)]
                  /\ completed' = Bump(completed, quizId.s)
                  /\ res' = Reply("submit", 200, [quizId |-> quizId],
                       [score |-> submission.score,
                        correctCount |-> submission.correctCount,
                        totalQuestions |-> submission.totalQuestions,
                        results |-> Results(quiz.questions, answers)])

(* ------------------------- GET /quiz-results/:quizId ------------------- *)
\* a + b of two numbers, NaN if either is NaN
JsAdd(a, b) == IF a.t = "nan" \/ b.t = "nan" THEN NaN ELSE Num(a.n + b.n)

\* scores.reduce((a, b) => a + b, 0)
RECURSIVE Sum(_)
Sum(scores) ==
  IF scores = <<>> THEN Num(0)
  ELSE JsAdd(Sum(SubSeq(scores, 1, Len(scores) - 1)), scores[Len(scores)])

\* Math.round(total / n) for n > 0 and total >= 0
RoundDiv(total, n) ==
  IF total.t = "nan" THEN NaN ELSE Num((2 * total.n + n) \div (2 * n))

HasNaN(scores) == \E i \in DOMAIN scores : scores[i].t = "nan"

\* Math.max(...scores) for a non-empty scores
JsMax(scores) ==
  IF HasNaN(scores) THEN NaN
  ELSE Num(CHOOSE m \in {scores[i].n : i \in DOMAIN scores} :
             \A i \in DOMAIN scores : scores[i].n <= m)

\* Math.min(...scores) for a non-empty scores
JsMin(scores) ==
  IF HasNaN(scores) THEN NaN
  ELSE Num(CHOOSE m \in {scores[i].n : i \in DOMAIN scores} :
             \A i \in DOMAIN scores : scores[i].n >= m)

Scores(quiz) == [i \in DOMAIN quiz.submissions |-> quiz.submissions[i].score]

Stats(quiz) ==
  LET scores == Scores(quiz)
  IN [totalSubmissions |-> Len(quiz.submissions),
      averageScore |-> IF Len(scores) > 0 THEN RoundDiv(Sum(scores), Len(scores)) ELSE Num(0),
      highestScore |-> IF Len(scores) > 0 THEN JsMax(scores) ELSE Num(0),
      lowestScore |-> IF Len(scores) > 0 THEN JsMin(scores) ELSE Num(0)]

\* lines 322-353
QuizResults(quizId) ==
  /\ UNCHANGED <<quizzes, inflight, accepted, now, completed, lastContent>>
  /\ IF quizId \notin DOMAIN quizzes
     THEN res' = Reply("results", 404, [quizId |-> Str(quizId)], [error |-> "Quiz not found"])
     ELSE LET quiz == quizzes[quizId]
          IN res' = Reply("results", 200, [quizId |-> Str(quizId)],
               [quizId |-> quizId,
                topic |-> quiz.topic,
                roomName |-> quiz.roomName,
                createdAt |-> quiz.createdAt,
                questions |-> quiz.questions,
                submissions |-> quiz.submissions,
                stats |-> Stats(quiz)])

(* ---------------------------- specification ---------------------------- *)
Next ==
  \/ Tick
  \/ \E topic \in Topics, roomName \in RoomNames : GenerateQuiz(topic, roomName)
  \/ \E req \in inflight, outcome \in Outcomes, rnd \in 0..MaxRand :
       GenerateQuizResume(req, outcome, rnd)
  \/ \E quizId \in QuizIdInputs, studentName \in StudentNames, answers \in AnswerInputs :
       SubmitQuiz(quizId, studentName, answers)
  \/ \E quizId \in QuizIds : QuizResults(quizId)

Spec == Init /\ [][Next]_vars

\* concurrent /generate-quiz requests and the clock alone
NextGenerate ==
  \/ Tick
  \/ \E topic \in Topics, roomName \in RoomNames : GenerateQuiz(topic, roomName)
  \/ \E req \in inflight, outcome \in Outcomes, rnd \in 0..MaxRand :
       GenerateQuizResume(req, outcome, rnd)

SpecGenerate == Init /\ [][NextGenerate]_vars

(* ------------------------------ properties ----------------------------- *)
\* round(100 * c / t) as the data model defines it: halves upwards, 0 for t = 0
RoundedPercent(c, t) == IF t = 0 THEN 0 ELSE (200 * c + t) \div (2 * t)

IsPrefix(s, t) == Len(s) <= Len(t) /\ SubSeq(t, 1, Len(s)) = s

CompletedFor(f, id) == IF id \in DOMAIN f THEN f[id] ELSE 0

\* the shape the prompt asks of one question
WellFormedQuestion(q) ==
  /\ q.t = "object"
  /\ Prop(q, "options").t = "array"
  /\ Len(Prop(q, "options").a) = OptionCount
  /\ Prop(q, "correctAnswer").t = "number"
  /\ Prop(q, "correctAnswer").n \in 0..(OptionCount - 1)

\* the shape the prompt asks of the array
InBand(questions) ==
  /\ questions.t = "array"
  /\ Len(questions.a) \in BandLow..BandHigh
  /\ \A i \in DOMAIN questions.a : WellFormedQuestion(questions.a[i])

\* C1: every stored submission has score = round(100 * correctCount /
\* totalQuestions), computed from the counts stored in the same record.
C1_ScoreMatchesCounts ==
  \A id \in DOMAIN quizzes :
    \A i \in DOMAIN quizzes[id].submissions :
      LET s == quizzes[id].submissions[i]
      IN s.score = Num(RoundedPercent(s.correctCount, s.totalQuestions))

\* C2: a quiz holds as many submissions as /submit-quiz calls to it have
\* completed, and no step shortens a quiz's submissions or alters or removes
\* a record already appended.
C2_AppendOnlyNoLostUpdate ==
  [][/\ \A id \in DOMAIN quizzes' :
          Len(quizzes'[id].submissions) = CompletedFor(completed', id)
     /\ \A id \in DOMAIN quizzes :
          /\ id \in DOMAIN quizzes'
          /\ IsPrefix(quizzes[id].submissions, quizzes'[id].submissions)]_vars

\* C3: a /generate-quiz call that answers with an error leaves the store
\* exactly as it was.
C3_FailedGenerateStoresNothing ==
  [][(res'.op = "generate" /\ res'.status # 200) => quizzes' = quizzes]_vars

\* C4: a /submit-quiz call with all three fields present answers 404, and
\* changes nothing, when the quiz id is not stored, and succeeds when it is.
C4_NotFoundIsTheOnlyFailure ==
  [][(res'.op = "submit" /\ res'.status # 400) =>
       IF res'.req.quizId.s \in DOMAIN quizzes
       THEN res'.status = 200
       ELSE res'.status = 404 /\ quizzes' = quizzes]_vars

\* C5: each question of a successful /generate-quiz response has the fields
\* id, question and options and no other, so never the answer key.
C5_ResponseHidesAnswerKey ==
  (res.op = "generate" /\ res.status = 200) =>
    /\ DOMAIN res.body = {"quizId", "questions"}
    /\ \A i \in DOMAIN res.body.questions :
         /\ DOMAIN res.body.questions[i] = {"id", "question", "options"}
         /\ res.body.questions[i].id = i - 1

\* C5 witness: a response for a quiz of BandLow questions whose stored
\* questions carry answer keys
C5_Witness ==
  /\ res.op = "generate" /\ res.status = 200
  /\ Len(res.body.questions) = BandLow
  /\ res.body.quizId \in DOMAIN quizzes
  /\ \A i \in DOMAIN quizzes[res.body.quizId].questions.a :
       Prop(quizzes[res.body.quizId].questions.a[i], "correctAnswer").t = "number"

\* h is the largest (smallest, with geq) of the scores, all of them numbers
IsExtreme(h, scores, geq) ==
  /\ \E i \in DOMAIN scores : scores[i] = Num(h)
  /\ \A i \in DOMAIN scores :
       /\ scores[i].t = "number"
       /\ IF geq THEN scores[i].n >= h ELSE scores[i].n <= h

\* a is the mean of the scores, all of them numbers, rounded to the nearest integer
IsRoundedMean(a, scores) ==
  /\ \A i \in DOMAIN scores : scores[i].t = "number"
  /\ LET total == SumOver([i \in DOMAIN scores |-> scores[i].n], DOMAIN scores)
         n == Len(scores)
     IN 2 * n * a - n <= 2 * total /\ 2 * total < 2 * n * a + n

\* C6: the statistics /quiz-results returns are the count, the rounded mean,
\* the maximum and the minimum of the quiz's stored scores, and 0, 0, 0 for
\* a quiz without submissions.
C6_StatsAreCountMeanMaxMin ==
  (res.op = "results" /\ res.status = 200) =>
    LET quiz == quizzes[res.body.quizId]
        scores == [i \in DOMAIN quiz.submissions |-> quiz.submissions[i].score]
        stats == res.body.stats
    IN /\ stats.totalSubmissions = Len(quiz.submissions)
       /\ res.body.submissions = quiz.submissions
       /\ IF Len(scores) = 0
          THEN /\ stats.averageScore = Num(0)
               /\ stats.highestScore = Num(0)
               /\ stats.lowestScore = Num(0)
          ELSE \E a, h, l \in 0..100 :
                 /\ stats.averageScore = Num(a) /\ IsRoundedMean(a, scores)
                 /\ stats.highestScore = Num(h) /\ IsExtreme(h, scores, FALSE)
                 /\ stats.lowestScore = Num(l) /\ IsExtreme(l, scores, TRUE)

C9_AbsentAnswerIsIncorrect ==
  (res.op = "submit" /\ res.status = 200) =>
    /\ \A i \in DOMAIN res.body.results :
         res.body.results[i].studentAnswer = Undefined => ~res.body.results[i].isCorrect
    /\ res.body.correctCount <=
         Cardinality({i \in DOMAIN res.body.results :
                        res.body.results[i].studentAnswer # Undefined})

\* C10: a submission to a quiz without questions is answered, and recorded,
\* with score 0.
C10_ZeroQuestionsScoreZero ==
  (res.op = "submit" /\ res.status = 200 /\ res.body.totalQuestions = 0) =>
    /\ res.body.score = Num(0)
    /\ LET subs == quizzes[res.req.quizId.s].submissions
       IN subs[Len(subs)].score = Num(0)

====
